---- MODULE Spec2Model ----
(***************************************************************************)
(* StorageObject (src/storageObject/storageobject.py): a dict guarded by   *)
(* a threading.RLock, with set, set_many, has, get, get_many and remove.   *)
(*                                                                         *)
(* Python objects are written as strings: the value None is "None", the    *)
(* unhashable key [] is "[]".  A dict returned to the caller is the        *)
(* sequence of its <<key, value>> items in insertion order.                *)
(***************************************************************************)
EXTENDS Naturals, Sequences, FiniteSets, TLC

VARIABLES
  data,     \* self._data: a function from the keys present to their values
  lock,     \* self._lock: [owner, count] of the RLock
  pc,       \* per thread: "idle", "lock", "body", "unlock"
  call,     \* per thread: the call in progress
  idx,      \* per thread: position of the loop of set_many / get_many
  ret,      \* per thread: what the call returns or raises
  snap,     \* per thread: _data as it was when the thread took the lock
  written,  \* observer: per key, the value of the last committed write
  passed,   \* observer: per key, the values some set/set_many call passed
  asked,    \* observer: per key, what the last mutator called asked for
  heap      \* the caller's mutable objects: how often each was appended to

vars == <<data, lock, pc, call, idx, ret, snap, written, passed, asked, heap>>

----------------------------------------------------------------------------
(* Bounds of the model. *)

\* Longest keys list given to get_many, longest dict given to set_many.
MaxLen == 3

\* The same for the calls of the threads that share the object.
MaxShared == 2

\* Threads of the concurrent configuration, and the single caller.
AllThreads == {"t1", "t2"}
MainThread == {"t1"}

Keys == {"a", "b"}
UnhashableKey == "[]"
AllKeys == Keys \cup {UnhashableKey}

None == "None"
Values == {None, "1", "2"}
Defaults == {None, "def"}

\* A mutable object of the caller, stored by reference: the list lst of
\* test_mutable_values_reference.  A copy of it is another object.
Objects == {"lst"}
CopyOf(v) == IF v \in Objects THEN "copy of lst" ELSE v

\* How often the caller appends to an object, at most.
MaxAppends == 2

\* Markers of the model, not Python objects.
NoThread == "-"
Absent == "<absent>"
Unused == "-"

Threads == DOMAIN pc

EmptyDict == [x \in {} |-> None]

----------------------------------------------------------------------------
(* Python's dict, as the methods use it. *)

\* Mutant of Hashable: every key is taken, none is hashed.
hashable_any(k) == TRUE

\* hash(key) succeeds: a list key raises TypeError "unhashable type".
Hashable(k) == k # UnhashableKey

\* Mutants of dict_setitem: a fresh dict of the one entry; setdefault.
dict_setitem_fresh(d, k, v) == [x \in {k} |-> v]
dict_setitem_default(d, k, v) ==
  [x \in (DOMAIN d) \cup {k} |-> IF x \in DOMAIN d THEN d[x] ELSE v]

\* self._data[key] = value
dict_setitem(d, k, v) ==
  [x \in (DOMAIN d) \cup {k} |-> IF x = k THEN v ELSE d[x]]

\* key in self._data
dict_contains(d, k) == k \in DOMAIN d

\* Mutants of dict_get: "get(key) or default"; get(key) without the default;
\* a copy of the value.
dict_get_falsy(d, k, default) ==
  IF k \in DOMAIN d /\ d[k] # None THEN d[k] ELSE default
dict_get_nodefault(d, k, default) == IF k \in DOMAIN d THEN d[k] ELSE None
dict_get_copy(d, k, default) == IF k \in DOMAIN d THEN CopyOf(d[k]) ELSE default

\* self._data.get(key, default)
dict_get(d, k, default) == IF k \in DOMAIN d THEN d[k] ELSE default

\* Mutant of dict_pop: the key stays, with None for a value.
dict_pop_tombstone(d, k) ==
  [x \in (DOMAIN d) \cup {k} |-> IF x = k THEN None ELSE d[x]]

\* self._data.pop(key, None): the dict without key
dict_pop(d, k) == [x \in (DOMAIN d) \ {k} |-> d[x]]

\* Whether pop(key, None) raises TypeError.  A hashable key never does.  An
\* unhashable key does when the dict has entries; on an empty dict CPython
\* returns the default before hashing the key, other builds hash first.
pop_raises(d, k) ==
  IF Hashable(k) THEN {FALSE}
  ELSE IF DOMAIN d = {} THEN {FALSE, TRUE}
  ELSE {TRUE}

\* One step of the dict comprehension {key: ... for key in keys}: a key seen
\* before keeps its place and takes the new value, a new key is appended.
comp_insert(items, k, v) ==
  IF \E i \in 1..Len(items) : items[i][1] = k
    THEN [i \in 1..Len(items) |-> IF items[i][1] = k THEN <<k, v>> ELSE items[i]]
    ELSE Append(items, <<k, v>>)

----------------------------------------------------------------------------
(* Calls and results. *)

NoCall ==
  [name |-> Unused, key |-> Unused, value |-> Unused, default |-> Unused,
   keys |-> << >>, keysNone |-> FALSE, items |-> << >>]

\* Lists of at most MaxLen keys, as given to get_many.
KeyLists == UNION {[1..n -> AllKeys] : n \in 0..MaxLen}

\* Dicts of at most MaxLen entries, as given to set_many: the items in the
\* dict's iteration order.  A dict holds no key twice and no unhashable key.
Batches ==
  {b \in UNION {[1..n -> Keys \X Values] : n \in 0..MaxLen} :
     \A i, j \in 1..Len(b) : i # j => b[i][1] # b[j][1]}

SetCalls ==
  {[NoCall EXCEPT !.name = "set", !.key = k, !.value = v] :
     k \in AllKeys, v \in Values}
SetManyCalls ==
  {[NoCall EXCEPT !.name = "set_many", !.items = b] : b \in Batches}
HasCalls == {[NoCall EXCEPT !.name = "has", !.key = k] : k \in AllKeys}
\* get(key) is get(key, None): the default of the parameter.
GetCalls ==
  {[NoCall EXCEPT !.name = "get", !.key = k, !.default = d] :
     k \in AllKeys, d \in Defaults}
GetManyCalls ==
  {[NoCall EXCEPT !.name = "get_many", !.keys = ks, !.default = d] :
     ks \in KeyLists, d \in Defaults}
  \cup {[NoCall EXCEPT !.name = "get_many", !.keysNone = TRUE, !.default = d] :
     d \in Defaults}
RemoveCalls == {[NoCall EXCEPT !.name = "remove", !.key = k] : k \in AllKeys}

Calls ==
  SetCalls \cup SetManyCalls \cup HasCalls \cup GetCalls \cup GetManyCalls
    \cup RemoveCalls

\* The calls of the threads that share the object: the values stored are not
\* None, get and get_many are called without a default, and the lists and
\* dicts are of at most MaxShared entries.
SharedValues == Values \ {None}
SharedCalls ==
  {c \in Calls :
     /\ c.value \in SharedValues \cup {Unused}
     /\ c.default \in {None, Unused}
     /\ Len(c.keys) <= MaxShared /\ Len(c.items) <= MaxShared
     /\ \A i \in 1..Len(c.items) : c.items[i][2] \in SharedValues}

NoRet == [exc |-> Unused, type |-> Unused, atom |-> Unused, items |-> << >>]
Returns(v) == [NoRet EXCEPT !.exc = "", !.type = "atom", !.atom = v]
ReturnsDict(items) == [NoRet EXCEPT !.exc = "", !.type = "dict", !.items = items]
Raises(e) == [NoRet EXCEPT !.exc = e]
PyBool(b) == IF b THEN "True" ELSE "False"

\* What a call asks for key k: a value to store, Absent (a remove), or
\* nothing, and then what was asked before stands.
AskedFor(c, k, before) ==
  CASE c.name = "set" /\ c.key = k -> c.value
    [] c.name = "remove" /\ c.key = k -> Absent
    [] c.name = "set_many" /\ (\E i \in 1..Len(c.items) : c.items[i][1] = k) ->
         LET i == CHOOSE j \in 1..Len(c.items) : c.items[j][1] = k
         IN c.items[i][2]
    [] OTHER -> before

\* The values a call passes to be stored under key k.
PassedFor(c, k) ==
  CASE c.name = "set" -> IF c.key = k THEN {c.value} ELSE {}
    [] c.name = "set_many" ->
         {c.items[i][2] : i \in {j \in 1..Len(c.items) : c.items[j][1] = k}}
    [] OTHER -> {}

----------------------------------------------------------------------------
(* threading.RLock *)

\* Mutant of rlock_release: the count is reset, the owner stays.
rlock_release_keeps_owner(l) == [owner |-> l.owner, count |-> 0]

\* Mutant of rlock_can_acquire: a lock that never blocks.
rlock_never_blocks(l, t) == TRUE

\* RLock.acquire() goes through when the lock is free or the caller owns it.
rlock_can_acquire(l, t) == l.owner = NoThread \/ l.owner = t

rlock_acquire(l, t) == [owner |-> t, count |-> l.count + 1]

rlock_release(l) ==
  IF l.count = 1 THEN [owner |-> NoThread, count |-> 0]
  ELSE [owner |-> l.owner, count |-> l.count - 1]

----------------------------------------------------------------------------
(* The state after construction. *)

InitFor(ts) ==
  /\ data = EmptyDict
  /\ lock = [owner |-> NoThread, count |-> 0]
  /\ pc = [t \in ts |-> "idle"]
  /\ call = [t \in ts |-> NoCall]
  /\ idx = [t \in ts |-> 1]
  /\ ret = [t \in ts |-> NoRet]
  /\ snap = [t \in ts |-> EmptyDict]
  /\ written = [k \in Keys |-> Absent]
  /\ passed = [k \in Keys |-> {}]
  /\ asked = [k \in Keys |-> Absent]
  /\ heap = [o \in Objects |-> 0]

Init == InitFor(AllThreads)
InitMain == InitFor(MainThread)

----------------------------------------------------------------------------
(* The steps of a call. *)

\* A thread calls a method with one of the calls cs: it arrives at
\* "with self._lock:".
CallFrom(t, cs) ==
  /\ pc[t] = "idle"
  /\ \E c \in cs :
       /\ call' = [call EXCEPT ![t] = c]
       /\ asked' = [k \in Keys |-> AskedFor(c, k, asked[k])]
  /\ pc' = [pc EXCEPT ![t] = "lock"]
  /\ UNCHANGED <<data, lock, idx, ret, snap, written, passed, heap>>

\* A call by one of the threads that share the object.
Call(t) == CallFrom(t, SharedCalls)

\* A call by the single caller.
CallMain(t) == CallFrom(t, Calls)

\* test_concurrent_unique_keys: each worker sets the key that is its own.
KeyOf(t) == IF t = "t1" THEN "a" ELSE "b"
CallWorker(t) == CallFrom(t, {c \in SetCalls : c.key = KeyOf(t)})

\* test_concurrent_mixed_operations: setters and removers on the same keys.
\* The observer notes the values the setters pass.
CallMixed(t) ==
  /\ pc[t] = "idle"
  /\ \E c \in SetCalls \cup RemoveCalls :
       /\ call' = [call EXCEPT ![t] = c]
       /\ asked' = [k \in Keys |-> AskedFor(c, k, asked[k])]
       /\ passed' = [k \in Keys |-> passed[k] \cup PassedFor(c, k)]
  /\ pc' = [pc EXCEPT ![t] = "lock"]
  /\ UNCHANGED <<data, lock, idx, ret, snap, written, heap>>

\* with self._lock: __enter__ acquires the lock.
Acquire(t) ==
  /\ pc[t] = "lock"
  /\ rlock_can_acquire(lock, t)
  /\ lock' = rlock_acquire(lock, t)
  /\ pc' = [pc EXCEPT ![t] = "body"]
  /\ snap' = [snap EXCEPT ![t] = data]
  /\ UNCHANGED <<data, call, idx, ret, written, passed, asked, heap>>

\* A with block that releases on return only, and keeps the lock when the
\* body raised.
ReleaseUnlessRaised(t) ==
  /\ pc[t] = "unlock"
  /\ lock' = IF ret[t].exc = "" THEN rlock_release(lock) ELSE lock
  /\ pc' = [pc EXCEPT ![t] = "idle"]
  /\ snap' = [snap EXCEPT ![t] = EmptyDict]
  /\ call' = [call EXCEPT ![t] = NoCall]
  /\ idx' = [idx EXCEPT ![t] = 1]
  /\ ret' = [ret EXCEPT ![t] = NoRet]
  /\ UNCHANGED <<data, written, passed, asked, heap>>

\* The with block is left, by return or by exception: __exit__ releases, and
\* the caller has the result.
Release(t) ==
  /\ pc[t] = "unlock"
  /\ lock' = rlock_release(lock)
  /\ pc' = [pc EXCEPT ![t] = "idle"]
  /\ snap' = [snap EXCEPT ![t] = EmptyDict]
  /\ call' = [call EXCEPT ![t] = NoCall]
  /\ idx' = [idx EXCEPT ![t] = 1]
  /\ ret' = [ret EXCEPT ![t] = NoRet]
  /\ UNCHANGED <<data, written, passed, asked, heap>>

\* set: self._data[key] = value
Set(t) ==
  /\ pc[t] = "body" /\ call[t].name = "set"
  /\ IF Hashable(call[t].key)
       THEN /\ data' = dict_setitem(data, call[t].key, call[t].value)
            /\ written' = [written EXCEPT ![call[t].key] = call[t].value]
            /\ ret' = [ret EXCEPT ![t] = Returns(None)]
       ELSE /\ ret' = [ret EXCEPT ![t] = Raises("TypeError")]
            /\ UNCHANGED <<data, written>>
  /\ pc' = [pc EXCEPT ![t] = "unlock"]
  /\ UNCHANGED <<lock, call, idx, snap, passed, asked, heap>>

\* Mutant of SetMany: the loop ends one item early.
SetManyDropsLast(t) ==
  /\ pc[t] = "body" /\ call[t].name = "set_many"
  /\ IF idx[t] < Len(call[t].items)
       THEN LET k == call[t].items[idx[t]][1]
                v == call[t].items[idx[t]][2]
            IN /\ data' = dict_setitem(data, k, v)
               /\ written' = [written EXCEPT ![k] = v]
               /\ idx' = [idx EXCEPT ![t] = idx[t] + 1]
               /\ UNCHANGED <<pc, ret>>
       ELSE /\ pc' = [pc EXCEPT ![t] = "unlock"]
            /\ ret' = [ret EXCEPT ![t] = Returns(None)]
            /\ UNCHANGED <<data, written, idx>>
  /\ UNCHANGED <<lock, call, snap, passed, asked, heap>>

\* set_many: one turn of "for key, value in data.items()", or its end.
SetMany(t) ==
  /\ pc[t] = "body" /\ call[t].name = "set_many"
  /\ IF idx[t] <= Len(call[t].items)
       THEN LET k == call[t].items[idx[t]][1]
                v == call[t].items[idx[t]][2]
            IN /\ data' = dict_setitem(data, k, v)
               /\ written' = [written EXCEPT ![k] = v]
               /\ idx' = [idx EXCEPT ![t] = idx[t] + 1]
               /\ UNCHANGED <<pc, ret>>
       ELSE /\ pc' = [pc EXCEPT ![t] = "unlock"]
            /\ ret' = [ret EXCEPT ![t] = Returns(None)]
            /\ UNCHANGED <<data, written, idx>>
  /\ UNCHANGED <<lock, call, snap, passed, asked, heap>>

\* has: return key in self._data
Has(t) ==
  /\ pc[t] = "body" /\ call[t].name = "has"
  /\ ret' = [ret EXCEPT ![t] =
       IF Hashable(call[t].key)
         THEN Returns(PyBool(dict_contains(data, call[t].key)))
         ELSE Raises("TypeError")]
  /\ pc' = [pc EXCEPT ![t] = "unlock"]
  /\ UNCHANGED <<data, lock, call, idx, snap, written, passed, asked, heap>>

\* A get that stores the default it returns, as dict.setdefault would.
GetSetdefault(t) ==
  /\ pc[t] = "body" /\ call[t].name = "get"
  /\ ret' = [ret EXCEPT ![t] =
       IF Hashable(call[t].key)
         THEN Returns(dict_get(data, call[t].key, call[t].default))
         ELSE Raises("TypeError")]
  /\ data' = IF Hashable(call[t].key) /\ ~dict_contains(data, call[t].key)
               THEN dict_setitem(data, call[t].key, call[t].default)
               ELSE data
  /\ pc' = [pc EXCEPT ![t] = "unlock"]
  /\ UNCHANGED <<lock, call, idx, snap, written, passed, asked, heap>>

\* get: return self._data.get(key, default)
Get(t) ==
  /\ pc[t] = "body" /\ call[t].name = "get"
  /\ ret' = [ret EXCEPT ![t] =
       IF Hashable(call[t].key)
         THEN Returns(dict_get(data, call[t].key, call[t].default))
         ELSE Raises("TypeError")]
  /\ pc' = [pc EXCEPT ![t] = "unlock"]
  /\ UNCHANGED <<data, lock, call, idx, snap, written, passed, asked, heap>>

\* get_many: one turn of {key: self._data.get(key, default) for key in keys},
\* or its end.  Iterating None raises TypeError, and so does an unhashable key.
GetMany(t) ==
  /\ pc[t] = "body" /\ call[t].name = "get_many"
  /\ IF call[t].keysNone
       THEN /\ ret' = [ret EXCEPT ![t] = Raises("TypeError")]
            /\ pc' = [pc EXCEPT ![t] = "unlock"]
            /\ UNCHANGED idx
       ELSE IF idx[t] <= Len(call[t].keys)
       THEN LET k == call[t].keys[idx[t]]
                sofar == IF idx[t] = 1 THEN << >> ELSE ret[t].items
            IN IF Hashable(k)
                 THEN /\ ret' = [ret EXCEPT ![t] = ReturnsDict(
                            comp_insert(sofar, k, dict_get(data, k, call[t].default)))]
                      /\ idx' = [idx EXCEPT ![t] = idx[t] + 1]
                      /\ UNCHANGED pc
                 ELSE /\ ret' = [ret EXCEPT ![t] = Raises("TypeError")]
                      /\ pc' = [pc EXCEPT ![t] = "unlock"]
                      /\ UNCHANGED idx
       ELSE /\ ret' = [ret EXCEPT ![t] =
                 IF idx[t] = 1 THEN ReturnsDict(<< >>) ELSE ret[t]]
            /\ pc' = [pc EXCEPT ![t] = "unlock"]
            /\ UNCHANGED idx
  /\ UNCHANGED <<data, lock, call, snap, written, passed, asked, heap>>

\* remove: self._data.pop(key, None)
Remove(t) ==
  /\ pc[t] = "body" /\ call[t].name = "remove"
  /\ \E r \in pop_raises(data, call[t].key) :
       IF r THEN /\ ret' = [ret EXCEPT ![t] = Raises("TypeError")]
                 /\ UNCHANGED <<data, written>>
       ELSE /\ data' = dict_pop(data, call[t].key)
            /\ written' = [k \in Keys |->
                 IF k = call[t].key THEN Absent ELSE written[k]]
            /\ ret' = [ret EXCEPT ![t] = Returns(None)]
  /\ pc' = [pc EXCEPT ![t] = "unlock"]
  /\ UNCHANGED <<lock, call, idx, snap, passed, asked, heap>>

Next ==
  \/ \E t \in Threads : Call(t)
  \/ \E t \in Threads : Acquire(t)
  \/ \E t \in Threads : Set(t)
  \/ \E t \in Threads : SetMany(t)
  \/ \E t \in Threads : Has(t)
  \/ \E t \in Threads : Get(t)
  \/ \E t \in Threads : GetMany(t)
  \/ \E t \in Threads : Remove(t)
  \/ \E t \in Threads : Release(t)

NextMain ==
  \/ \E t \in Threads : CallMain(t)
  \/ \E t \in Threads : Acquire(t)
  \/ \E t \in Threads : Set(t)
  \/ \E t \in Threads : SetMany(t)
  \/ \E t \in Threads : Has(t)
  \/ \E t \in Threads : Get(t)
  \/ \E t \in Threads : GetMany(t)
  \/ \E t \in Threads : Remove(t)
  \/ \E t \in Threads : Release(t)

NextWorkers ==
  \/ \E t \in Threads : CallWorker(t)
  \/ \E t \in Threads : Acquire(t)
  \/ \E t \in Threads : Set(t)
  \/ \E t \in Threads : Release(t)

NextMixed ==
  \/ \E t \in Threads : CallMixed(t)
  \/ \E t \in Threads : Acquire(t)
  \/ \E t \in Threads : Set(t)
  \/ \E t \in Threads : Remove(t)
  \/ \E t \in Threads : Release(t)

\* Several threads share one StorageObject and call any of its methods.
Spec == Init /\ [][Next]_vars

\* One thread calls the StorageObject.
MainSpec == InitMain /\ [][NextMain]_vars

\* Workers that each set a key of their own.
WorkersSpec == Init /\ [][NextWorkers]_vars

\* Setters and removers on the same keys.
MixedSpec == Init /\ [][NextMixed]_vars

----------------------------------------------------------------------------
(* Claims. *)

\* A thread is inside a critical section: it holds the lock, between
\* __enter__ and __exit__ of "with self._lock:".
InCS(t) == pc[t] \in {"body", "unlock"}

\* The call of thread t is finished: its result is set, the lock still held.
Finished(t, name) == pc[t] = "unlock" /\ call[t].name = name

AllIdle == \A t \in Threads : pc[t] = "idle"

\* C1: at most one thread is inside the critical section of an operation on
\* the object, and the thread that is inside is the owner of the lock.
C1_MutualExclusion ==
  /\ \A t, u \in Threads : (InCS(t) /\ InCS(u)) => t = u
  /\ \A t \in Threads : InCS(t) => lock.owner = t

\* A thread is inside the critical section while another waits for the lock.
C1_Witness ==
  \E t, u \in Threads : t # u /\ pc[t] = "body" /\ pc[u] = "lock"

\* C2: workers that set keys of their own lose no write: once all of them
\* have finished, the key of each worker that called set is in the map,
\* has(key) is true, and get(key) returns the value the worker passed last.
C2_NoLostWrites ==
  AllIdle =>
    \A t \in Threads : asked[KeyOf(t)] # Absent =>
      /\ dict_contains(data, KeyOf(t))
      /\ dict_get(data, KeyOf(t), None) = asked[KeyOf(t)]

\* Both workers have set their key, to different values, and have finished.
C2_Witness ==
  /\ AllIdle
  /\ \A t \in Threads : asked[KeyOf(t)] # Absent
  /\ data["a"] # data["b"]

\* C3: with setters and removers on the same keys, in every state (so after
\* all threads have finished too) the map holds only keys that were set, and
\* a read of a key yields absence or one of the values a setter passed for it.
C3_NoForeignValue ==
  /\ DOMAIN data \subseteq Keys
  /\ \A k \in Keys :
       dict_contains(data, k) => dict_get(data, k, None) \in passed[k]

\* A remover has removed a key that was set while a setter of the same key
\* waits for the lock.
C3_Witness ==
  \E t, u \in Threads :
    /\ Finished(t, "remove") /\ call[t].key \in DOMAIN snap[t]
    /\ pc[u] = "lock" /\ call[u].name = "set" /\ call[u].key = call[t].key

\* C4: set replaces the value, it does not merge: when set(k, v) is finished
\* the map holds v for k, whatever it held before, and get(k, d) would return
\* v; a key in the map has the value of the last set or set_many on that
\* key, and a get of it returns that value.
C4_Overwrite ==
  /\ \A k \in DOMAIN data : k \in Keys /\ data[k] = written[k]
  /\ \A t \in Threads :
      /\ (Finished(t, "set") /\ Hashable(call[t].key)) =>
           /\ dict_contains(data, call[t].key)
           /\ \A d \in Defaults : dict_get(data, call[t].key, d) = call[t].value
      /\ (Finished(t, "get") /\ Hashable(call[t].key)
            /\ written[call[t].key] # Absent) =>
           ret[t] = Returns(written[call[t].key])

\* set(k, "2") is finished on a map that held "1" for k.
C4_Witness ==
  \E t \in Threads :
    /\ Finished(t, "set") /\ call[t].value = "2"
    /\ dict_get(snap[t], call[t].key, None) = "1"
    /\ data[call[t].key] = "2"

\* C5: a stored None is a present entry: after set(k, None), has(k) returns
\* True and get(k, d) returns None for every default d.
C5_NoneIsPresent ==
  \A t \in Threads :
    /\ (Finished(t, "has") /\ Hashable(call[t].key)
          /\ written[call[t].key] = None) => ret[t] = Returns("True")
    /\ (Finished(t, "get") /\ Hashable(call[t].key)
          /\ written[call[t].key] = None) => ret[t] = Returns(None)

\* get(k, "def") has returned None for a key that was set to None.
C5_Witness ==
  \E t \in Threads :
    /\ Finished(t, "get") /\ call[t].default = "def"
    /\ Hashable(call[t].key) /\ written[call[t].key] = None
    /\ ret[t] = Returns(None)

\* C6: the map is empty as long as nothing was written, and for a key that
\* is not in the map has(k) returns False and get(k, d) returns d; get(k)
\* is get(k, None) and returns None.
C6_DefaultFallback ==
  /\ (\A k \in Keys : written[k] = Absent) => DOMAIN data = {}
  /\ \A t \in Threads :
       /\ (Finished(t, "has") /\ Hashable(call[t].key)
             /\ call[t].key \notin DOMAIN data) => ret[t] = Returns("False")
       /\ (Finished(t, "get") /\ Hashable(call[t].key)
             /\ call[t].key \notin DOMAIN data) =>
            ret[t] = Returns(call[t].default)

\* get(k, "def") has returned "def" for a key that is not in a map that
\* holds another key.
C6_Witness ==
  \E t \in Threads :
    /\ Finished(t, "get") /\ call[t].default = "def"
    /\ Hashable(call[t].key) /\ call[t].key \notin DOMAIN data
    /\ DOMAIN data # {}
    /\ ret[t] = Returns("def")

\* The keys of a get_many call are a list of hashable keys.
ValidKeyList(c) ==
  ~c.keysNone /\ \A i \in 1..Len(c.keys) : Hashable(c.keys[i])

\* C7: get_many(keys, default) returns a list of the length of keys whose
\* element i is the value stored for keys[i], or default.
C7_GetManyList ==
  \A t \in Threads :
    (Finished(t, "get_many") /\ ValidKeyList(call[t])) =>
      /\ ret[t].exc = ""
      /\ ret[t].type = "list"
      /\ Len(ret[t].items) = Len(call[t].keys)
      /\ \A i \in 1..Len(call[t].keys) :
           ret[t].items[i] = dict_get(data, call[t].keys[i], call[t].default)

\* C8: get_many of an empty list of keys, or of None for keys, returns an
\* empty list and raises nothing.
C8_GetManyEmpty ==
  \A t \in Threads :
    (Finished(t, "get_many") /\ (call[t].keysNone \/ call[t].keys = << >>)) =>
      /\ ret[t].exc = ""
      /\ ret[t].type = "list"
      /\ ret[t].items = << >>

\* C9: remove(k) raises nothing and leaves a map without k, which a second
\* remove(k) would leave as it is; remove(k) of a key that is not in the map
\* leaves the map as it was.
C9_IdempotentRemove ==
  \A t \in Threads :
    (Finished(t, "remove") /\ Hashable(call[t].key)) =>
      /\ ret[t] = Returns(None)
      /\ call[t].key \notin DOMAIN data
      /\ dict_pop(data, call[t].key) = data
      /\ \A k \in DOMAIN data : k \in DOMAIN snap[t] /\ data[k] = snap[t][k]
      /\ call[t].key \notin DOMAIN snap[t] => data = snap[t]

\* remove(k) is finished for a key that is not in a map that holds another key.
C9_Witness ==
  \E t \in Threads :
    /\ Finished(t, "remove") /\ Hashable(call[t].key)
    /\ call[t].key \notin DOMAIN snap[t]
    /\ DOMAIN snap[t] # {}
    /\ ret[t] = Returns(None)

\* C10: has, get and remove raise TypeError for a key that cannot be hashed.
C10_InvalidKeyRaises ==
  \A t \in Threads :
    (pc[t] = "unlock" /\ call[t].name \in {"has", "get", "remove"}
       /\ ~Hashable(call[t].key)) => ret[t].exc = "TypeError"

\* C11 as claimed: set and set_many always succeed, whatever the key.
C11_WriteNeverRaises ==
  \A t \in Threads :
    (pc[t] = "unlock" /\ call[t].name \in {"set", "set_many"}) =>
      ret[t] = Returns(None)

\* C11 as amended: set with a key that can be hashed, and set_many with any
\* dict, succeed and return None; set with a key that cannot be hashed raises
\* TypeError, as has and get do, and leaves the map as it was.
C11_WritePath ==
  \A t \in Threads :
    /\ (Finished(t, "set") /\ call[t].key \in Keys) => ret[t] = Returns(None)
    /\ Finished(t, "set_many") => ret[t] = Returns(None)
    /\ (Finished(t, "set") /\ call[t].key = UnhashableKey) =>
         /\ ret[t] = Raises("TypeError")
         /\ data = snap[t]
    /\ (pc[t] = "unlock" /\ call[t].name \in {"has", "get"}
          /\ call[t].key = UnhashableKey) => ret[t] = Raises("TypeError")

\* set([], v) has raised TypeError on a map that holds an entry.
C11_Witness ==
  \E t \in Threads :
    /\ Finished(t, "set") /\ call[t].key = UnhashableKey
    /\ ret[t] = Raises("TypeError")
    /\ DOMAIN data # {}

\* The map after set(k, v) for every pair of items, first to last, from d.
RECURSIVE SetEach(_, _)
SetEach(d, items) ==
  IF items = << >> THEN d
  ELSE SetEach(dict_setitem(d, Head(items)[1], Head(items)[2]), Tail(items))

\* C12: set_many(entries) leaves the map that set(k, v) for every pair of
\* entries, in their order, leaves: every key of entries has its value from
\* entries, every other key is as it was, and an empty entries changes nothing.
C12_SetManyIsSets ==
  \A t \in Threads :
    Finished(t, "set_many") =>
      /\ ret[t] = Returns(None)
      /\ data = SetEach(snap[t], call[t].items)
      /\ \A i \in 1..Len(call[t].items) :
           /\ dict_contains(data, call[t].items[i][1])
           /\ data[call[t].items[i][1]] = call[t].items[i][2]
      /\ \A k \in Keys :
           (\A i \in 1..Len(call[t].items) : call[t].items[i][1] # k) =>
             /\ dict_contains(data, k) = dict_contains(snap[t], k)
             /\ dict_contains(data, k) => data[k] = snap[t][k]
      /\ call[t].items = << >> => data = snap[t]

\* set_many of two entries is finished on a map that held one of the keys
\* with another value.
C12_Witness ==
  \E t \in Threads :
    /\ Finished(t, "set_many") /\ Len(call[t].items) = 2
    /\ \E i \in 1..2 :
         /\ dict_contains(snap[t], call[t].items[i][1])
         /\ snap[t][call[t].items[i][1]] # call[t].items[i][2]
    /\ data = SetEach(snap[t], call[t].items)

\* The calls of the threads under fair scheduling: those of the threads that
\* share the object, with one value to store.
LiveCalls ==
  {c \in SharedCalls :
     /\ c.value \in {"1", Unused}
     /\ \A i \in 1..Len(c.items) : c.items[i][2] = "1"}

CallLive(t) == CallFrom(t, LiveCalls)

NextLive ==
  \/ \E t \in Threads : CallLive(t)
  \/ \E t \in Threads : Acquire(t)
  \/ \E t \in Threads : Set(t)
  \/ \E t \in Threads : SetMany(t)
  \/ \E t \in Threads : Has(t)
  \/ \E t \in Threads : Get(t)
  \/ \E t \in Threads : GetMany(t)
  \/ \E t \in Threads : Remove(t)
  \/ \E t \in Threads : Release(t)

\* A step of the body of the call of thread t, or its release of the lock:
\* nothing in them waits.
Run(t) ==
  \/ Set(t) \/ SetMany(t) \/ Has(t) \/ Get(t) \/ GetMany(t) \/ Remove(t)
  \/ Release(t)

\* Fair scheduling: a thread that can run does run, and a thread that waits
\* for a lock that is free again and again gets it.
Fairness == \A t \in AllThreads : WF_vars(Run(t)) /\ SF_vars(Acquire(t))

\* Several threads share one StorageObject, under fair scheduling.
FairSpec == Init /\ [][NextLive]_vars /\ Fairness

----------------------------------------------------------------------------
(* Values stored by reference. *)

\* test_mutable_values_reference: the caller stores its list, or a plain
\* value, and reads it back.
AliasCalls ==
  {[NoCall EXCEPT !.name = "set", !.key = k, !.value = v] :
     k \in Keys, v \in Objects \cup {"1"}}
  \cup {c \in GetCalls : c.key \in Keys /\ c.default = None}

CallAlias(t) == CallFrom(t, AliasCalls)

\* got.append(3): between two calls the caller appends to an object that the
\* map holds, through the reference it has.
Mutate(o) ==
  /\ \A t \in Threads : pc[t] = "idle"
  /\ \E k \in DOMAIN data : data[k] = o
  /\ heap[o] < MaxAppends
  /\ heap' = [heap EXCEPT ![o] = heap[o] + 1]
  /\ UNCHANGED <<data, lock, pc, call, idx, ret, snap, written, passed, asked>>

NextAlias ==
  \/ \E t \in Threads : CallAlias(t)
  \/ \E t \in Threads : Acquire(t)
  \/ \E t \in Threads : Set(t)
  \/ \E t \in Threads : Get(t)
  \/ \E t \in Threads : Release(t)
  \/ \E o \in Objects : Mutate(o)

\* One thread stores objects and changes them outside the store.
AliasSpec == InitMain /\ [][NextAlias]_vars

\* What is read through a reference: the appends made to the object it
\* refers to; a copy has none of them.
Deref(v) == IF v \in DOMAIN heap THEN heap[v] ELSE 0

\* C14: get returns the reference that set stored, not a copy: get(k) of a
\* key set to the object r returns r itself, and through it the caller reads
\* every change made to r outside the store.
C14_GetReturnsAlias ==
  \A t \in Threads :
    (Finished(t, "get") /\ written[call[t].key] \in Objects) =>
      /\ ret[t] = Returns(written[call[t].key])
      /\ ret[t].atom \in Objects
      /\ Deref(ret[t].atom) = heap[written[call[t].key]]

\* get(k) has returned the list that was stored and then appended to.
C14_Witness ==
  \E t \in Threads :
    /\ Finished(t, "get") /\ ret[t] = Returns("lst")
    /\ heap["lst"] > 0

----------------------------------------------------------------------------
(* The methods run one at a time: a call as one step from the map d. *)

Outcome(d, r) == [data |-> d, ret |-> r]

seq_set(d, k, v) ==
  IF Hashable(k) THEN {Outcome(dict_setitem(d, k, v), Returns(None))}
  ELSE {Outcome(d, Raises("TypeError"))}

seq_set_many(d, items) == {Outcome(SetEach(d, items), Returns(None))}

seq_has(d, k) ==
  IF Hashable(k) THEN {Outcome(d, Returns(PyBool(dict_contains(d, k))))}
  ELSE {Outcome(d, Raises("TypeError"))}

seq_get(d, k, default) ==
  IF Hashable(k) THEN {Outcome(d, Returns(dict_get(d, k, default)))}
  ELSE {Outcome(d, Raises("TypeError"))}

\* The dict comprehension of get_many over keys, from the items so far.
RECURSIVE Comprehend(_, _, _, _)
Comprehend(d, keys, default, sofar) ==
  IF keys = << >> THEN ReturnsDict(sofar)
  ELSE IF ~Hashable(Head(keys)) THEN Raises("TypeError")
  ELSE Comprehend(d, Tail(keys), default,
                  comp_insert(sofar, Head(keys), dict_get(d, Head(keys), default)))

seq_get_many(d, keys, keysNone, default) ==
  IF keysNone THEN {Outcome(d, Raises("TypeError"))}
  ELSE {Outcome(d, Comprehend(d, keys, default, << >>))}

seq_remove(d, k) ==
  {IF r THEN Outcome(d, Raises("TypeError"))
        ELSE Outcome(dict_pop(d, k), Returns(None)) : r \in pop_raises(d, k)}

\* The outcomes of call c run alone on the map d.
SeqOutcomes(c, d) ==
  CASE c.name = "set" -> seq_set(d, c.key, c.value)
    [] c.name = "set_many" -> seq_set_many(d, c.items)
    [] c.name = "has" -> seq_has(d, c.key)
    [] c.name = "get" -> seq_get(d, c.key, c.default)
    [] c.name = "get_many" -> seq_get_many(d, c.keys, c.keysNone, c.default)
    [] c.name = "remove" -> seq_remove(d, c.key)
    [] OTHER -> {}

\* C15: the calls of several threads take effect one at a time, in the order
\* in which they take the lock: when a call is finished, its result and the
\* map are those of the call run alone on the map as it was when the call
\* took the lock, which is the map the call before it left.
C15_Linearizable ==
  \A t \in Threads :
    /\ pc[t] = "unlock" =>
         Outcome(data, ret[t]) \in SeqOutcomes(call[t], snap[t])
    /\ (pc[t] = "body" /\ idx[t] = 1) => data = snap[t]

\* get_many of two keys is finished, with the values of the map that a
\* set_many of the other thread, waiting for the lock, is about to change.
C15_Witness ==
  \E t, u \in Threads :
    /\ Finished(t, "get_many") /\ Len(call[t].keys) = 2
    /\ ret[t].exc = "" /\ Len(ret[t].items) = 2
    /\ pc[u] = "lock" /\ call[u].name = "set_many" /\ Len(call[u].items) = 2
    /\ DOMAIN data # {}

----------------------------------------------------------------------------
\* Thread t is between two writes of a set_many of several entries.
MidBatch(t) ==
  /\ call[t].name = "set_many" /\ pc[t] = "body"
  /\ 1 < idx[t] /\ idx[t] <= Len(call[t].items)

Reads == {"has", "get", "get_many"}

\* C16 (as stated): set_many is a sequence of writes each serialized on its
\* own, so that between two writes of a batch a reader of another thread that
\* waits for the lock can take it and observe the partial progress.
C16_PartialProgressObservable ==
  \A t, u \in Threads :
    (MidBatch(t) /\ u # t /\ pc[u] = "lock" /\ call[u].name \in Reads) =>
      rlock_can_acquire(lock, u)

\* C16 (amended): set_many holds the lock over the whole loop. While another
\* thread is inside a method body, a set_many has either not begun or is
\* over, and the partial progress of a batch is the work of its thread alone
\* on the map it found: no reader observes a batch half done.
C16_BatchIsAtomic ==
  \A t \in Threads :
    /\ (call[t].name = "set_many" /\ pc[t] = "body") =>
         /\ idx[t] \in 1..(Len(call[t].items) + 1)
         /\ data = SetEach(snap[t], SubSeq(call[t].items, 1, idx[t] - 1))
    /\ \A u \in Threads \ {t} :
         (InCS(u) /\ call[t].name = "set_many") => pc[t] = "lock"

\* A batch of two entries is half done, one key written and the other not
\* yet, while a get of the other thread waits for the lock.
C16_Witness ==
  \E t, u \in Threads :
    /\ MidBatch(t) /\ u # t
    /\ Len(call[t].items) = 2 /\ idx[t] = 2
    /\ call[t].items[2][1] \notin DOMAIN data
    /\ pc[u] = "lock" /\ call[u].name = "get"
    /\ ~rlock_can_acquire(lock, u)

----------------------------------------------------------------------------
\* C17: presence follows the last write. A key is in the map exactly when the
\* last set, set_many or remove that named it was a set or a set_many (it is
\* absent after a remove and when never written), has answers accordingly,
\* and no call other than remove makes a key of the map absent.
C17_PresenceFollowsLastWrite ==
  /\ \A k \in Keys : dict_contains(data, k) <=> written[k] # Absent
  /\ \A t \in Threads :
       /\ (Finished(t, "has") /\ call[t].key \in Keys) =>
            ret[t] = Returns(PyBool(written[call[t].key] # Absent))
       /\ (InCS(t) /\ call[t].name # "remove") =>
            DOMAIN snap[t] \subseteq DOMAIN data

\* remove has taken a key that was in the map out of it, while a has of the
\* same key by the other thread waits for the lock.
C17_Witness ==
  \E t, u \in Threads :
    /\ Finished(t, "remove") /\ ret[t] = Returns(None)
    /\ call[t].key \in DOMAIN snap[t] /\ call[t].key \notin DOMAIN data
    /\ written[call[t].key] = Absent
    /\ pc[u] = "lock" /\ call[u].name = "has" /\ call[u].key = call[t].key

----------------------------------------------------------------------------
\* C18: get_many reads one consistent snapshot. Every value a get_many call
\* returns is the value (or the default) of the map as it was when the call
\* took the lock, the same state for all its keys, and no write by another
\* thread takes effect during its lookups.
C18_GetManySnapshot ==
  \A t \in Threads :
    /\ (call[t].name = "get_many" /\ InCS(t)) => data = snap[t]
    /\ (Finished(t, "get_many") /\ ret[t].exc = "") =>
         /\ \A i \in 1..Len(ret[t].items) :
              ret[t].items[i][2] =
                dict_get(snap[t], ret[t].items[i][1], call[t].default)
         /\ {ret[t].items[i][1] : i \in 1..Len(ret[t].items)} =
              {call[t].keys[i] : i \in 1..Len(call[t].keys)}

\* get_many of two distinct keys has read one key that is in the map and one
\* that is not, while a set_many of the other thread, which writes the
\* missing key, waits for the lock.
C18_Witness ==
  \E t, u \in Threads :
    /\ Finished(t, "get_many") /\ ret[t].exc = "" /\ Len(ret[t].items) = 2
    /\ \E i, j \in 1..2 :
         /\ ret[t].items[i][1] \in DOMAIN data
         /\ ret[t].items[j][1] \notin DOMAIN data
         /\ pc[u] = "lock" /\ call[u].name = "set_many"
         /\ \E n \in 1..Len(call[u].items) :
              call[u].items[n][1] = ret[t].items[j][1]

----------------------------------------------------------------------------
\* Maps d and e agree on every key but k: the same keys, the same values.
SameBut(d, e, k) ==
  /\ (DOMAIN d) \ {k} = (DOMAIN e) \ {k}
  /\ \A x \in (DOMAIN d) \ {k} : d[x] = e[x]

\* C19: frame. has, get and get_many leave the map as it was, a read of an
\* absent key with a default included, and set(k, v) and remove(k) leave the
\* presence and the value of every key other than k as they were.
C19_Frame ==
  \A t \in Threads :
    /\ (InCS(t) /\ call[t].name \in Reads) => data = snap[t]
    /\ (pc[t] = "unlock" /\ call[t].name \in {"set", "remove"}) =>
         SameBut(snap[t], data, call[t].key)

\* get of an absent key has returned the default it was given, on a map that
\* holds another key.
C19_Witness ==
  \E t \in Threads :
    /\ Finished(t, "get") /\ call[t].key \in Keys
    /\ call[t].key \notin DOMAIN snap[t] /\ call[t].default = "def"
    /\ ret[t] = Returns("def")
    /\ DOMAIN data # {}

----------------------------------------------------------------------------
\* C20: an error is local to the failing call. When a call raises on an
\* invalid key the map is as it was before the call, and the lock is held
\* only by a thread that is inside a method body: the failing thread gives
\* it up on its way out, so that whenever no call is under way every thread
\* can take the lock.
C20_ErrorIsLocal ==
  /\ \A t \in Threads :
       (pc[t] = "unlock" /\ ret[t].exc = "TypeError") =>
         /\ data = snap[t]
         /\ \A k \in Keys : dict_contains(data, k) <=> written[k] # Absent
  /\ lock.owner # NoThread => InCS(lock.owner)
  /\ (\A t \in Threads : ~InCS(t)) =>
       \A u \in Threads : rlock_can_acquire(lock, u)

\* has, get or remove has raised on a key that cannot be hashed, on a map
\* that is not empty, while a call of the other thread waits for the lock.
C20_Witness ==
  \E t, u \in Threads :
    /\ pc[t] = "unlock" /\ ret[t] = Raises("TypeError")
    /\ call[t].name \in {"has", "get", "remove"}
    /\ call[t].key = UnhashableKey
    /\ DOMAIN data # {}
    /\ u # t /\ pc[u] = "lock"

====
